---- MODULE Spec2Model ----
(***************************************************************************)
(* Smart-To-Do: a multi-user to-do list HTTP service, in three variants.   *)
(*                                                                         *)
(*   "index"    src/untitled/index.js   users.json + per-user task files   *)
(*   "part_000" src/unnamed/part_000    SQLite users + per-user task files *)
(*   "part_001" src/unnamed/part_001    SQLite users + SQLite tasks        *)
(*                                                                         *)
(* The three servers share the router; they differ in the stores and in    *)
(* how createTask / updateTask normalise a request body.  The variable     *)
(* variant is fixed by Init and selects the server that is running.        *)
(*                                                                         *)
(* JavaScript strings are sequences of one-character strings, so that      *)
(* trim, split, the deadline regular expression, parseInt and base64 are   *)
(* computed as the code computes them.  JavaScript values are records      *)
(* [t, s, n, b] (type tag, string, number, boolean payload); an object is  *)
(* a function from property names to values, a missing property being      *)
(* undefined.                                                              *)
(***************************************************************************)
EXTENDS Integers, Sequences, FiniteSets

VARIABLES
    variant,    \* which of the three servers is running
    now,        \* the clock, Date.now() / CURRENT_TIMESTAMP
    users,      \* users.json (array) or the users table (rows in rowid order)
    taskFiles,  \* tasks/tasks_<userId>.json: file key -> array of task objects
    taskRows,   \* the tasks table of part_001, rows in rowid order
    req,        \* the request handled last
    resp,       \* the response sent to it
    fault,      \* the store operations that fail now: "read", "write"
    flight      \* per connection: the request that waits at an await

vars == <<variant, now, users, taskFiles, taskRows, req, resp, fault, flight>>

\* what no handler changes
aside == <<fault, flight>>

-----------------------------------------------------------------------------
(* JavaScript values *)

Str(s) == [s |-> s, t |-> "str", n |-> 0, b |-> FALSE]
Num(n) == [s |-> <<>>, t |-> "num", n |-> n, b |-> FALSE]
Bool(b) == [s |-> <<>>, t |-> "bool", n |-> 0, b |-> b]
Null == [s |-> <<>>, t |-> "null", n |-> 0, b |-> FALSE]
\* NaN, the result of parseInt on a string with no leading digits
NaN == [s |-> <<>>, t |-> "nan", n |-> 0, b |-> FALSE]

\* ToBoolean: what `!x`, `x || y`, `x ? a : b` and Boolean(x) test
Truthy(v) ==
    CASE v.t = "str" -> v.s # <<>>
      [] v.t = "num" -> v.n # 0
      [] v.t = "bool" -> v.b
      [] OTHER -> FALSE

\* an object literal with no properties
EmptyObject == [k \in {} |-> Null]

Has(obj, k) == k \in DOMAIN obj

\* obj.k read under `||`: undefined is falsy
TruthyProp(obj, k) == Has(obj, k) /\ Truthy(obj[k])

\* { ...a, ...b }
Spread(a, b) ==
    [k \in (DOMAIN a) \cup (DOMAIN b) |-> IF k \in DOMAIN b THEN b[k] ELSE a[k]]

-----------------------------------------------------------------------------
(* Strings *)

Digits == <<"0", "1", "2", "3", "4", "5", "6", "7", "8", "9">>

IsDigit(c) == \E i \in 1..10 : Digits[i] = c

DigitValue(c) == (CHOOSE i \in 1..10 : Digits[i] = c) - 1

RECURSIVE ToDecimal(_)
\* Number.prototype.toString for a non-negative integer
ToDecimal(n) ==
    IF n < 10 THEN <<Digits[n + 1]>>
    ELSE ToDecimal(n \div 10) \o <<Digits[(n % 10) + 1]>>

\* String(v) and `${v}`
ToStr(v) ==
    CASE v.t = "str" -> v.s
      [] v.t = "num" -> ToDecimal(v.n)
      [] v.t = "bool" -> IF v.b THEN <<"t", "r", "u", "e">>
                         ELSE <<"f", "a", "l", "s", "e">>
      [] v.t = "nan" -> <<"N", "a", "N">>
      [] OTHER -> <<"n", "u", "l", "l">>

IsSpace(c) == c = " "

RECURSIVE TrimStart(_)
TrimStart(s) ==
    IF s # <<>> /\ IsSpace(Head(s)) THEN TrimStart(Tail(s)) ELSE s

RECURSIVE TrimEnd(_)
TrimEnd(s) ==
    IF s # <<>> /\ IsSpace(s[Len(s)]) THEN TrimEnd(SubSeq(s, 1, Len(s) - 1))
    ELSE s

\* String.prototype.trim
Trim(s) == TrimEnd(TrimStart(s))

\* the index of the first c in s, 0 when there is none
IndexOf(s, c) ==
    IF \E i \in 1..Len(s) : s[i] = c
    THEN CHOOSE i \in 1..Len(s) : s[i] = c /\ \A j \in 1..(i - 1) : s[j] # c
    ELSE 0

RECURSIVE Split(_, _)
\* String.prototype.split on a one-character separator
Split(s, c) ==
    LET i == IndexOf(s, c) IN
    IF i = 0 THEN <<s>>
    ELSE <<SubSeq(s, 1, i - 1)>> \o Split(SubSeq(s, i + 1, Len(s)), c)

\* the length of the longest prefix of s made of digits
DigitPrefixLen(s) ==
    IF \E i \in 1..Len(s) : ~IsDigit(s[i])
    THEN (CHOOSE i \in 1..Len(s) :
            ~IsDigit(s[i]) /\ \A j \in 1..(i - 1) : IsDigit(s[j])) - 1
    ELSE Len(s)

RECURSIVE DecimalValue(_)
DecimalValue(s) ==
    IF s = <<>> THEN 0
    ELSE 10 * DecimalValue(SubSeq(s, 1, Len(s) - 1)) + DigitValue(s[Len(s)])

\* parseInt(s): leading white space is skipped, then the longest run of
\* digits is read and what follows it is ignored; no digit gives NaN.
\* (Signs and radix prefixes are outside the inputs of this model.)
ParseInt(s) ==
    LET t == TrimStart(s)
        k == DigitPrefixLen(t)
    IN  IF k = 0 THEN NaN ELSE Num(DecimalValue(SubSeq(t, 1, k)))

\* SQLite, comparing a TEXT parameter with an INTEGER column: the text is
\* converted when all of it reads as a number (white space around it is
\* allowed), and is otherwise left a text, which equals no integer.
SqliteNumeric(s) ==
    LET t == Trim(s) IN
    IF t # <<>> /\ DigitPrefixLen(t) = Len(t) THEN Num(DecimalValue(t))
    ELSE Str(s)

\* /^\d{4}-\d{2}-\d{2}$/.test(s)
DateRegexTest(s) ==
    /\ Len(s) = 10
    /\ \A i \in {1, 2, 3, 4, 6, 7, 9, 10} : IsDigit(s[i])
    /\ s[5] = "-"
    /\ s[8] = "-"

-----------------------------------------------------------------------------
(* Buffer: UTF-8 bytes and base64 *)

\* the printable ASCII characters, code 32 first (the double quote, the
\* backslash and the backtick, which no input of this model holds, are
\* written by name)
Ascii ==
    << " ", "!", "QUOTE", "#", "$", "%", "&", "'", "(", ")", "*", "+", ",", "-",
       ".", "/", "0", "1", "2", "3", "4", "5", "6", "7", "8", "9", ":", ";",
       "<", "=", ">", "?", "@", "A", "B", "C", "D", "E", "F", "G", "H", "I",
       "J", "K", "L", "M", "N", "O", "P", "Q", "R", "S", "T", "U", "V", "W",
       "X", "Y", "Z", "[", "BACKSLASH", "]", "^", "_", "BACKTICK", "a", "b", "c", "d", "e",
       "f", "g", "h", "i", "j", "k", "l", "m", "n", "o", "p", "q", "r", "s",
       "t", "u", "v", "w", "x", "y", "z", "{", "|", "}", "~" >>

\* what toString('utf-8') gives for a byte that is no printable ASCII
\* character (a control character, or a byte of a non-ASCII sequence)
Unprintable == "U+FFFD"

\* the position of each character in Ascii
AsciiIndex ==
    [c \in {Ascii[i] : i \in 1..Len(Ascii)} |->
        CHOOSE i \in 1..Len(Ascii) : Ascii[i] = c]

CharCode(c) == AsciiIndex[c] + 31

FromCharCode(b) == IF b \in 32..126 THEN Ascii[b - 31] ELSE Unprintable

\* Buffer.from(s): the bytes of an ASCII string
Bytes(s) == [i \in 1..Len(s) |-> CharCode(s[i])]

\* buf.toString('utf-8')
Utf8ToString(bs) == [i \in 1..Len(bs) |-> FromCharCode(bs[i])]

Base64Alphabet ==
    << "A", "B", "C", "D", "E", "F", "G", "H", "I", "J", "K", "L", "M", "N",
       "O", "P", "Q", "R", "S", "T", "U", "V", "W", "X", "Y", "Z", "a", "b",
       "c", "d", "e", "f", "g", "h", "i", "j", "k", "l", "m", "n", "o", "p",
       "q", "r", "s", "t", "u", "v", "w", "x", "y", "z", "0", "1", "2", "3",
       "4", "5", "6", "7", "8", "9", "+", "/" >>

RECURSIVE Base64EncodeBytes(_)
\* buf.toString('base64')
Base64EncodeBytes(bs) ==
    LET E(k) == Base64Alphabet[k + 1] IN
    IF bs = <<>> THEN <<>>
    ELSE IF Len(bs) = 1 THEN
        <<E(bs[1] \div 4), E((bs[1] % 4) * 16), "=", "=">>
    ELSE IF Len(bs) = 2 THEN
        <<E(bs[1] \div 4), E((bs[1] % 4) * 16 + bs[2] \div 16),
          E((bs[2] % 16) * 4), "=">>
    ELSE
        <<E(bs[1] \div 4), E((bs[1] % 4) * 16 + bs[2] \div 16),
          E((bs[2] % 16) * 4 + bs[3] \div 64), E(bs[3] % 64)>>
        \o Base64EncodeBytes(SubSeq(bs, 4, Len(bs)))

\* Buffer.from(s).toString('base64')
Base64Encode(s) == Base64EncodeBytes(Bytes(s))

\* the position of each character in Base64Alphabet
Base64Index ==
    [c \in {Base64Alphabet[i] : i \in 1..64} |->
        CHOOSE i \in 1..64 : Base64Alphabet[i] = c]

IsBase64Char(c) ==
    \/ c \in DOMAIN Base64Index
    \/ c \in {"-", "_"}

\* the six bits of a base64 character ("-" and "_" are read as "+" and "/")
Sextet(c) ==
    CASE c = "-" -> 62
      [] c = "_" -> 63
      [] OTHER -> Base64Index[c] - 1

RECURSIVE Base64Sextets(_)
\* Node's decoder never throws: it skips a character that is not of the
\* alphabet and stops at the first "="
Base64Sextets(s) ==
    IF s = <<>> \/ Head(s) = "=" THEN <<>>
    ELSE IF IsBase64Char(Head(s)) THEN <<Sextet(Head(s))>> \o Base64Sextets(Tail(s))
    ELSE Base64Sextets(Tail(s))

RECURSIVE Base64DecodeSextets(_)
Base64DecodeSextets(x) ==
    IF Len(x) < 2 THEN <<>>
    ELSE IF Len(x) = 2 THEN <<x[1] * 4 + x[2] \div 16>>
    ELSE IF Len(x) = 3 THEN
        <<x[1] * 4 + x[2] \div 16, (x[2] % 16) * 16 + x[3] \div 4>>
    ELSE
        <<x[1] * 4 + x[2] \div 16, (x[2] % 16) * 16 + x[3] \div 4,
          (x[3] % 4) * 64 + x[4]>>
        \o Base64DecodeSextets(SubSeq(x, 5, Len(x)))

\* Buffer.from(s, 'base64').toString('utf-8')
Base64Decode(s) == Utf8ToString(Base64DecodeSextets(Base64Sextets(s)))

-----------------------------------------------------------------------------
(* Bounds of the model *)

\* the clock stops here; in index.js each registration uses one clock value
MaxClock == 2
\* users the credential store may hold
MaxUsers == 2
\* tasks the task store may hold, over all users
MaxTasks == 2

-----------------------------------------------------------------------------
(* Text constants of the servers *)

S_medium == <<"m", "e", "d", "i", "u", "m">>
S_low == <<"l", "o", "w">>
S_high == <<"h", "i", "g", "h">>
S_personal == <<"p", "e", "r", "s", "o", "n", "a", "l">>
S_work == <<"w", "o", "r", "k">>
S_shopping == <<"s", "h", "o", "p", "p", "i", "n", "g">>
S_health == <<"h", "e", "a", "l", "t", "h">>

validPriorities == {S_low, S_medium, S_high}
validCategories == {S_personal, S_work, S_shopping, S_health}

P_register == <<"/", "a", "p", "i", "/", "r", "e", "g", "i", "s", "t", "e", "r">>
P_login == <<"/", "a", "p", "i", "/", "l", "o", "g", "i", "n">>
P_tasks == <<"/", "a", "p", "i", "/", "t", "a", "s", "k", "s">>
P_tasksSlash == P_tasks \o <<"/">>
S_Basic == <<"B", "a", "s", "i", "c", " ">>
S_taskPrefix == <<"t", "a", "s", "k", "_">>

\* The error and message bodies, in English (the servers send them in
\* Russian); two bodies are equal here exactly when they are equal there.
E_Unauthorized == "Not authorized"            \* 'Ne avtorizovan'
E_NotFound == "Not found"                     \* 'Ne naideno'
E_Server == "Server error"                    \* 'Oshibka servera'
E_Internal == "Internal server error"         \* 'Vnutrennyaya oshibka servera'
E_Database == "Database error"                \* 'Oshibka bazy dannykh'
E_AllRequired == "All fields are required"    \* 'Vse polya obyazatelny'
E_UserExists == "User already exists"         \* 'Polzovatel uzhe sushchestvuet'
E_LoginRequired == "Login and password are required"
E_BadCredentials == "Invalid credentials"     \* 'Nevernye dannye'
E_TextRequired == "Task text is required"     \* 'Tekst zadachi obyazatelen'
E_TaskNotFound == "Task not found"            \* 'Zadacha ne naidena'
E_CreateFailed == "Error creating task"       \* 'Oshibka pri sozdanii zadachi'
M_UserCreated == "User created"
M_TaskCreated == "Task created"
M_TaskUpdated == "Task updated"
M_TaskDeleted == "Task deleted"

StartsWith(s, p) == Len(s) >= Len(p) /\ SubSeq(s, 1, Len(p)) = p

\* new Date().toISOString() and CURRENT_TIMESTAMP: the clock reading as text
Timestamp(t) == Str(ToDecimal(t) \o <<"Z">>)

-----------------------------------------------------------------------------
(* Responses: sendResponse(res, status, data) *)

NoResponse ==
    [status |-> 0, tasks |-> <<>>, token |-> <<>>, error |-> "",
     message |-> "", user |-> EmptyObject, id |-> Null, task |-> EmptyObject]

ErrorResponse(status, error) ==
    [NoResponse EXCEPT !.status = status, !.error = error]

MessageResponse(status, message) ==
    [NoResponse EXCEPT !.status = status, !.message = message]

sendResponse(r, data) ==
    /\ req' = r
    /\ resp' = data

-----------------------------------------------------------------------------
(* bcrypt.  The salt is left out: a hash is a function of the password.   *)

BcryptHash(password) == Str(<<"$", "2", "a", "$">> \o password.s)

BcryptCompare(password, hash) == BcryptHash(password) = hash

-----------------------------------------------------------------------------
(* The stores *)

\* the position of the first element of seq that satisfies Test, 0 if none
FindIndex(seq, Test(_)) ==
    IF \E i \in 1..Len(seq) : Test(seq[i])
    THEN CHOOSE i \in 1..Len(seq) :
            Test(seq[i]) /\ \A j \in 1..(i - 1) : ~Test(seq[j])
    ELSE 0

\* one file for the tasks of every user
getUserTasksFile_oneFile(userId) == <<"t", "a", "s", "k", "s">>

\* path.join(TASKS_DIR, `tasks_${userId}.json`): the file is named by the
\* text of the user id
getUserTasksFile(userId) == ToStr(userId)

\* a read of a store fails: readFileSync or JSON.parse throws, a SELECT
\* calls back with an error
ReadFails == "read" \in fault

\* a write of a store fails: writeFileSync throws, an INSERT, UPDATE or
\* DELETE calls back with an error
WriteFails == "write" \in fault

\* index.js loadUsers: a failed read is logged and [] is returned.
\* part_000, part_001: a failed SELECT gives the callback no row.
loadUsers == IF ReadFails THEN <<>> ELSE users

\* a failed read is logged and [] is returned
loadUserTasks(userId) ==
    IF ~ReadFails /\ getUserTasksFile(userId) \in DOMAIN taskFiles
    THEN taskFiles[getUserTasksFile(userId)]
    ELSE <<>>

\* a failed write is logged and the caller is told nothing
saveUserTasks(userId, tasks) ==
    taskFiles' =
        IF WriteFails THEN taskFiles
        ELSE [f \in (DOMAIN taskFiles) \cup {getUserTasksFile(userId)} |->
                IF f = getUserTasksFile(userId) THEN tasks ELSE taskFiles[f]]

\* the number of tasks in the task files
FileTaskCount ==
    LET RECURSIVE Sum(_)
        Sum(F) == IF F = {} THEN 0
                  ELSE LET f == CHOOSE g \in F : TRUE
                       IN  Len(taskFiles[f]) + Sum(F \ {f})
    IN  Sum(DOMAIN taskFiles)

\* the rows of one user in the tasks table, in rowid order
RowsOf(userId) == SelectSeq(taskRows, LAMBDA row : row.user_id = userId)

\* CURRENT_TIMESTAMP: the clock reading as fixed-width text, which SQLite
\* orders as the clock orders it
CurrentTimestamp(t) == Str(ToDecimal(t))

TimeOf(row) == DecimalValue(row.created_at.s)

RECURSIVE OrderByCreatedAtDesc(_)
\* ORDER BY created_at DESC; rows of one timestamp stay in rowid order
OrderByCreatedAtDesc(rows) ==
    IF rows = <<>> THEN <<>>
    ELSE LET last == rows[Len(rows)]
             rest == OrderByCreatedAtDesc(SubSeq(rows, 1, Len(rows) - 1))
             before == SelectSeq(rest, LAMBDA x : TimeOf(x) >= TimeOf(last))
             after == SelectSeq(rest, LAMBDA x : TimeOf(x) < TimeOf(last))
         IN  before \o <<last>> \o after

stores == <<users, taskFiles, taskRows>>

-----------------------------------------------------------------------------
(* handleRegister *)

\* a field that is there may be empty
RegisterFieldsPresent_mayBeEmpty(body) ==
    /\ Has(body, "username")
    /\ Has(body, "email")
    /\ Has(body, "password")

\* !username || !email || !password
RegisterFieldsPresent(body) ==
    /\ TruthyProp(body, "username")
    /\ TruthyProp(body, "email")
    /\ TruthyProp(body, "password")

\* a check of the username alone
UserExists_usernameOnly(body) ==
    \E i \in 1..Len(users) : users[i].username = body.username

\* users.find(u => u.username === username || u.email === email), and the
\* UNIQUE constraints of the users table
UserExists(body) ==
    \E i \in 1..Len(users) :
        users[i].username = body.username \/ users[i].email = body.email

\* the id is the clock reading in a unit twice as coarse
NewUser_index_coarseId(body, t) ==
    [id |-> Str(ToDecimal((t + 1) \div 2)),
     password |-> BcryptHash(body.password),
     created_at |-> Timestamp(t),
     username |-> body.username,
     email |-> body.email]

\* index.js: the object pushed to the users array
NewUser_index(body, t) ==
    [id |-> Str(ToDecimal(t)),
     password |-> BcryptHash(body.password),
     created_at |-> Timestamp(t),
     username |-> body.username,
     email |-> body.email]

\* index.js saveUsers: what users.json holds after it; a failed write is
\* logged and the caller is told nothing
saveUsers(array) == IF WriteFails THEN users ELSE array

\* users.push(newUser) on the array of the server that loads the file anew
ArrayToSave_reloaded(loaded, newUser) == Append(users, newUser)

\* users.push(newUser): the array loaded before the hash, with the new user
ArrayToSave(loaded, newUser) == Append(loaded, newUser)

\* index.js, after await bcrypt.hash: the hash began at the clock reading
\* since and takes longer than one reading of the clock, so Date.now() gives
\* a later reading; the array pushed to is the one loaded before the hash.
handleRegister_afterHash(r, loaded, since) ==
    \E t \in {now, now + 1} :
        /\ t > since
        /\ t <= MaxClock
        /\ Len(loaded) < MaxUsers
        /\ now' = t
        /\ users' = saveUsers(ArrayToSave(loaded, NewUser_index(r.body, t)))
        /\ sendResponse(r, MessageResponse(201, M_UserCreated))
        /\ UNCHANGED <<variant, taskFiles, taskRows>>

\* index.js: the whole handler, when no other request is handled during the
\* hash
handleRegister_index(r) ==
    IF ~RegisterFieldsPresent(r.body) THEN
        /\ sendResponse(r, ErrorResponse(400, E_AllRequired))
        /\ UNCHANGED <<variant, now, stores>>
    ELSE IF ~ReadFails /\ UserExists(r.body) THEN
        /\ sendResponse(r, ErrorResponse(400, E_UserExists))
        /\ UNCHANGED <<variant, now, stores>>
    ELSE
        handleRegister_afterHash(r, loadUsers, now)

\* part_000 and part_001: INSERT INTO users; any error of the insert is
\* answered 400.  AUTOINCREMENT gives the next id.
handleRegister_sqlite(r) ==
    IF ~RegisterFieldsPresent(r.body) THEN
        /\ sendResponse(r, ErrorResponse(400, E_AllRequired))
        /\ UNCHANGED <<variant, now, stores>>
    ELSE IF UserExists(r.body) \/ WriteFails THEN
        /\ sendResponse(r, ErrorResponse(400, E_UserExists))
        /\ UNCHANGED <<variant, now, stores>>
    ELSE
        /\ Len(users) < MaxUsers
        /\ users' = Append(users,
                [id |-> Num(Len(users) + 1),
                 password |-> BcryptHash(r.body.password),
                 created_at |-> CurrentTimestamp(now),
                 username |-> r.body.username,
                 email |-> r.body.email])
        /\ sendResponse(r, MessageResponse(201, M_UserCreated))
        /\ UNCHANGED <<variant, now, taskFiles, taskRows>>

handleRegister(r) ==
    \/ variant = "index" /\ handleRegister_index(r)
    \/ variant # "index" /\ handleRegister_sqlite(r)

-----------------------------------------------------------------------------
(* handleLogin *)

\* Buffer.from(`${user.id}:${username}`).toString('base64')
Token(id, username) == Base64Encode(ToStr(id) \o <<":">> \o ToStr(username))

\* a response that tells a wrong password apart
WrongPasswordResponse_401 == ErrorResponse(401, E_Unauthorized)

\* the answer to a wrong password
WrongPasswordResponse == ErrorResponse(400, E_BadCredentials)

\* the three servers answer alike: users.find / SELECT ... WHERE username;
\* part_000 and part_001 answer an error of the SELECT as they answer no row
handleLogin(r) ==
    LET body == r.body
        idx == FindIndex(loadUsers, LAMBDA u : u.username = body.username)
    IN
    /\ UNCHANGED <<variant, now, stores>>
    /\ IF ~(TruthyProp(body, "username") /\ TruthyProp(body, "password")) THEN
           sendResponse(r, ErrorResponse(400, E_LoginRequired))
       ELSE IF idx = 0 THEN
           sendResponse(r, ErrorResponse(400, E_BadCredentials))
       ELSE IF ~BcryptCompare(body.password, users[idx].password) THEN
           sendResponse(r, WrongPasswordResponse)
       ELSE
           sendResponse(r,
               [NoResponse EXCEPT
                   !.status = 200,
                   !.token = Token(users[idx].id, body.username),
                   !.user = [id |-> users[idx].id,
                             username |-> users[idx].username]])

-----------------------------------------------------------------------------
(* authenticate *)

NoAuth == [ok |-> FALSE, userId |-> Null]

\* const [userId, username] = decoded.split(':')
DecodedPair(authHeader) ==
    LET parts == Split(Base64Decode(SubSeq(authHeader, 7, Len(authHeader))), ":")
    IN  [userId |-> parts[1],
         hasName |-> Len(parts) >= 2,
         username |-> IF Len(parts) >= 2 THEN parts[2] ELSE <<>>]

\* how each server turns the id text of the token into the value it looks
\* the user up by: index.js compares the text itself, part_000 passes
\* parseInt(userId) to the query, part_001 passes the text and SQLite
\* converts it for the INTEGER column
LookupKey(userIdText) ==
    CASE variant = "index" -> Str(userIdText)
      [] variant = "part_000" -> ParseInt(userIdText)
      [] OTHER -> SqliteNumeric(userIdText)

authenticate(r) ==
    LET h == r.authorization IN
    IF ~Truthy(h) \/ ~StartsWith(h.s, S_Basic) THEN NoAuth
    ELSE LET pair == DecodedPair(h.s)
             idx == FindIndex(loadUsers, LAMBDA u :
                        /\ u.id = LookupKey(pair.userId)
                        /\ pair.hasName
                        /\ u.username = Str(pair.username))
         IN  IF idx = 0 THEN NoAuth
             ELSE [ok |-> TRUE, userId |-> users[idx].id]

-----------------------------------------------------------------------------
(* getTasks *)

\* index.js and part_000: the array of the user's file, as stored
getTasks_file(r, userId) ==
    /\ sendResponse(r,
           [NoResponse EXCEPT !.status = 200, !.tasks = loadUserTasks(userId)])
    /\ UNCHANGED <<variant, now, stores>>

\* completed: Boolean(task.completed)
FormatRow(row) == [row EXCEPT !.completed = Bool(Truthy(row.completed))]

\* part_001: SELECT * FROM tasks WHERE user_id = ? ORDER BY created_at DESC
getTasks_sqlite(r, userId) ==
    LET rows == OrderByCreatedAtDesc(RowsOf(userId)) IN
    /\ IF ReadFails THEN
           sendResponse(r, ErrorResponse(500, E_Database))
       ELSE
           sendResponse(r,
               [NoResponse EXCEPT
                   !.status = 200,
                   !.tasks = [i \in 1..Len(rows) |-> FormatRow(rows[i])]])
    /\ UNCHANGED <<variant, now, stores>>

getTasks(r, userId) ==
    \/ variant # "part_001" /\ getTasks_file(r, userId)
    \/ variant = "part_001" /\ getTasks_sqlite(r, userId)

-----------------------------------------------------------------------------
(* createTask *)

\* what Math.random().toString(36).substr(2, 9) may give; the handlers take
\* what it gives during the request as their last argument
RandomSuffixes == {<<"r">>, <<"s">>}

\* `task_${Date.now()}_${random}`
NewTaskId(t, random) == S_taskPrefix \o ToDecimal(t) \o <<"_">> \o random

\* x || fallback, for a property of the body
OrDefault(body, k, fallback) ==
    IF TruthyProp(body, k) THEN body[k] ELSE fallback

\* the text is stored as it was sent
NewTask_file_untrimmed(body, id) ==
    [id |-> Str(id),
     created_at |-> Timestamp(now),
     completed |-> Bool(FALSE),
     text |-> body.text,
     priority |-> OrDefault(body, "priority", Str(S_medium)),
     category |-> OrDefault(body, "category", Str(S_personal)),
     deadline |-> OrDefault(body, "deadline", Null),
     updated_at |-> Timestamp(now)]

\* index.js and part_000: the object pushed to the user's array
NewTask_file(body, id) ==
    [id |-> Str(id),
     created_at |-> Timestamp(now),
     completed |-> Bool(FALSE),
     text |-> Str(Trim(body.text.s)),
     priority |-> OrDefault(body, "priority", Str(S_medium)),
     category |-> OrDefault(body, "category", Str(S_personal)),
     deadline |-> OrDefault(body, "deadline", Null),
     updated_at |-> Timestamp(now)]

\* index.js and part_000.  text.trim() of a truthy text that is no string
\* throws, which the handler's catch answers with 500.
createTask_file(r, userId, random) ==
    LET body == r.body
        tasks == loadUserTasks(userId)
    IN
    IF ~TruthyProp(body, "text") THEN
        /\ sendResponse(r, ErrorResponse(400, E_TextRequired))
        /\ UNCHANGED <<variant, now, stores>>
    ELSE IF body.text.t # "str" THEN
        /\ sendResponse(r, ErrorResponse(500, E_Server))
        /\ UNCHANGED <<variant, now, stores>>
    ELSE IF Trim(body.text.s) = <<>> THEN
        /\ sendResponse(r, ErrorResponse(400, E_TextRequired))
        /\ UNCHANGED <<variant, now, stores>>
    ELSE
        /\ FileTaskCount < MaxTasks
        /\ LET newTask == NewTask_file(body, NewTaskId(now, random)) IN
            /\ saveUserTasks(userId, Append(tasks, newTask))
            /\ sendResponse(r,
                   [NoResponse EXCEPT
                       !.status = 201,
                       !.id = newTask.id,
                       !.message = M_TaskCreated,
                       !.task = newTask])
        /\ UNCHANGED <<variant, now, users, taskRows>>

\* part_001: the body's fields as the handler checks them
TaskData_sqlite(body) ==
    LET priority == ToStr(OrDefault(body, "priority", Str(S_medium)))
        category == ToStr(OrDefault(body, "category", Str(S_personal)))
        deadline == IF TruthyProp(body, "deadline")
                    THEN Str(ToStr(body.deadline)) ELSE Null
    IN
    [text |-> Trim(ToStr(OrDefault(body, "text", Str(<<>>)))),
     priority |-> IF priority \in validPriorities THEN priority ELSE S_medium,
     category |-> IF category \in validCategories THEN category ELSE S_personal,
     deadline |-> IF Truthy(deadline) /\ ~DateRegexTest(deadline.s)
                  THEN Null ELSE deadline]

\* part_001: the row INSERT INTO tasks stores; completed, created_at and
\* updated_at take the defaults of the table
NewRow(taskData, id, userId) ==
    [id |-> Str(id),
     user_id |-> userId,
     created_at |-> CurrentTimestamp(now),
     completed |-> Num(0),
     text |-> Str(taskData.text),
     priority |-> Str(taskData.priority),
     category |-> Str(taskData.category),
     deadline |-> taskData.deadline,
     updated_at |-> CurrentTimestamp(now)]

\* part_001.  The insert fails when the id is taken (id is the PRIMARY KEY
\* of the table) and when the write fails, and the error is answered 500.
createTask_sqlite(r, userId, random) ==
    LET taskData == TaskData_sqlite(r.body) IN
    IF taskData.text = <<>> THEN
        /\ sendResponse(r, ErrorResponse(400, E_TextRequired))
        /\ UNCHANGED <<variant, now, stores>>
    ELSE
        /\ Len(taskRows) < MaxTasks
        /\ LET taskId == NewTaskId(now, random) IN
            IF WriteFails \/ \E i \in 1..Len(taskRows) : taskRows[i].id = Str(taskId) THEN
                /\ sendResponse(r, ErrorResponse(500, E_CreateFailed))
                /\ UNCHANGED taskRows
            ELSE
                /\ taskRows' = Append(taskRows, NewRow(taskData, taskId, userId))
                /\ sendResponse(r,
                       [NoResponse EXCEPT
                           !.status = 201,
                           !.id = Str(taskId),
                           !.message = M_TaskCreated])
        /\ UNCHANGED <<variant, now, users, taskFiles>>

createTask(r, userId, random) ==
    \/ variant # "part_001" /\ createTask_file(r, userId, random)
    \/ variant = "part_001" /\ createTask_sqlite(r, userId, random)

-----------------------------------------------------------------------------
(* updateTask *)

\* index.js: { ...tasks[taskIndex], ...body, updated_at }
UpdatedTask_index(task, body) ==
    Spread(Spread(task, body), [updated_at |-> Timestamp(now)])

\* part_000: the same, then completed = Boolean(body.completed) when the
\* body has a completed
UpdatedTask_part000(task, body) ==
    LET merged == UpdatedTask_index(task, body) IN
    IF Has(body, "completed")
    THEN [merged EXCEPT !.completed = Bool(Truthy(body.completed))]
    ELSE merged

UpdatedTask_file(task, body) ==
    IF variant = "index" THEN UpdatedTask_index(task, body)
    ELSE UpdatedTask_part000(task, body)

updateTask_file(r, userId, taskId) ==
    LET tasks == loadUserTasks(userId)
        taskIndex == FindIndex(tasks, LAMBDA t : t.id = Str(taskId))
    IN
    IF taskIndex = 0 THEN
        /\ sendResponse(r, ErrorResponse(404, E_TaskNotFound))
        /\ UNCHANGED <<variant, now, stores>>
    ELSE
        /\ saveUserTasks(userId,
               [tasks EXCEPT ![taskIndex] = UpdatedTask_file(tasks[taskIndex], r.body)])
        /\ sendResponse(r, MessageResponse(200, M_TaskUpdated))
        /\ UNCHANGED <<variant, now, users, taskRows>>

\* new Date(s).toISOString() throws a RangeError unless s reads as a date.
\* Of the deadlines this model sends, those of the form YYYY-MM-DD with a
\* month and a day in range read as a date and the others hold no digit.
IsValidDate(s) ==
    /\ DateRegexTest(s)
    /\ DecimalValue(SubSeq(s, 6, 7)) \in 1..12
    /\ DecimalValue(SubSeq(s, 9, 10)) \in 1..28

\* sanitizeTaskData(data).deadline throws
SanitizeThrows(data) ==
    TruthyProp(data, "deadline") /\ ~IsValidDate(ToStr(data.deadline))

\* part_001: sanitizeTaskData(data); every field is computed, from the
\* body's value or from the default, whether the body names it or not.
\* For a date YYYY-MM-DD, toISOString().split('T')[0] is the date itself.
sanitizeTaskData(data) ==
    LET priority == IF Has(data, "priority") THEN ToStr(data.priority)
                    ELSE <<"u", "n", "d", "e", "f", "i", "n", "e", "d">>
        category == IF Has(data, "category") THEN ToStr(data.category)
                    ELSE <<"u", "n", "d", "e", "f", "i", "n", "e", "d">>
    IN
    [text |-> Str(Trim(ToStr(OrDefault(data, "text", Str(<<>>))))),
     priority |-> Str(IF priority \in validPriorities THEN priority ELSE S_medium),
     category |-> Str(IF category \in validCategories THEN category ELSE S_personal),
     deadline |-> IF TruthyProp(data, "deadline")
                  THEN Str(ToStr(data.deadline)) ELSE Null]

\* the row after UPDATE tasks SET text, completed, priority, category,
\* deadline, updated_at
UpdatedRow(row, body) ==
    LET sanitizedData == sanitizeTaskData(body) IN
    [row EXCEPT
        !.text = sanitizedData.text,
        !.completed = IF TruthyProp(body, "completed") THEN Num(1) ELSE Num(0),
        !.priority = sanitizedData.priority,
        !.category = sanitizedData.category,
        !.deadline = sanitizedData.deadline,
        !.updated_at = CurrentTimestamp(now)]

\* part_001: UPDATE tasks SET ... WHERE id = ? AND user_id = ?
updateTask_sqlite(r, userId, taskId) ==
    LET Hit(row) == row.id = Str(taskId) /\ row.user_id = userId IN
    IF SanitizeThrows(r.body) THEN
        /\ sendResponse(r, ErrorResponse(500, E_Internal))
        /\ UNCHANGED <<variant, now, stores>>
    ELSE IF WriteFails THEN
        /\ sendResponse(r, ErrorResponse(500, E_Database))
        /\ UNCHANGED <<variant, now, stores>>
    ELSE IF ~\E i \in 1..Len(taskRows) : Hit(taskRows[i]) THEN
        /\ sendResponse(r, ErrorResponse(404, E_TaskNotFound))
        /\ UNCHANGED <<variant, now, stores>>
    ELSE
        /\ taskRows' = [i \in 1..Len(taskRows) |->
                            IF Hit(taskRows[i]) THEN UpdatedRow(taskRows[i], r.body)
                            ELSE taskRows[i]]
        /\ sendResponse(r, MessageResponse(200, M_TaskUpdated))
        /\ UNCHANGED <<variant, now, users, taskFiles>>

updateTask(r, userId, taskId) ==
    \/ variant # "part_001" /\ updateTask_file(r, userId, taskId)
    \/ variant = "part_001" /\ updateTask_sqlite(r, userId, taskId)

-----------------------------------------------------------------------------
(* deleteTask *)

\* index.js and part_000: tasks.filter(t => t.id !== taskId)
deleteTask_file(r, userId, taskId) ==
    LET tasks == loadUserTasks(userId)
        filteredTasks == SelectSeq(tasks, LAMBDA t : t.id # Str(taskId))
    IN
    IF Len(tasks) = Len(filteredTasks) THEN
        /\ sendResponse(r, ErrorResponse(404, E_TaskNotFound))
        /\ UNCHANGED <<variant, now, stores>>
    ELSE
        /\ saveUserTasks(userId, filteredTasks)
        /\ sendResponse(r, MessageResponse(200, M_TaskDeleted))
        /\ UNCHANGED <<variant, now, users, taskRows>>

\* part_001: DELETE FROM tasks WHERE id = ? AND user_id = ?
deleteTask_sqlite(r, userId, taskId) ==
    LET Hit(row) == row.id = Str(taskId) /\ row.user_id = userId IN
    IF WriteFails THEN
        /\ sendResponse(r, ErrorResponse(500, E_Database))
        /\ UNCHANGED <<variant, now, stores>>
    ELSE IF ~\E i \in 1..Len(taskRows) : Hit(taskRows[i]) THEN
        /\ sendResponse(r, ErrorResponse(404, E_TaskNotFound))
        /\ UNCHANGED <<variant, now, stores>>
    ELSE
        /\ taskRows' = SelectSeq(taskRows, LAMBDA row : ~Hit(row))
        /\ sendResponse(r, MessageResponse(200, M_TaskDeleted))
        /\ UNCHANGED <<variant, now, users, taskFiles>>

deleteTask(r, userId, taskId) ==
    \/ variant # "part_001" /\ deleteTask_file(r, userId, taskId)
    \/ variant = "part_001" /\ deleteTask_sqlite(r, userId, taskId)

-----------------------------------------------------------------------------
(* handleApiRequest: the router *)

IsTasksRoute(r) == r.path = P_tasks
IsTaskRoute(r) == r.path # P_tasks /\ StartsWith(r.path, P_tasksSlash)

\* pathname.split('/')[3]
PathTaskId(path) == Split(path, "/")[4]

\* the two task routes after authenticate gave auth.userId
handleAuthenticated(r, userId, random) ==
    IF IsTasksRoute(r) THEN
        IF r.method = "GET" THEN
            getTasks(r, userId)
        ELSE IF r.method = "POST" THEN
            createTask(r, userId, random)
        ELSE
            \* no branch answers another method: no response is ever sent
            /\ sendResponse(r, NoResponse)
            /\ UNCHANGED <<variant, now, stores>>
    ELSE
        IF r.method = "PUT" THEN
            updateTask(r, userId, PathTaskId(r.path))
        ELSE IF r.method = "DELETE" THEN
            deleteTask(r, userId, PathTaskId(r.path))
        ELSE
            \* no branch answers another method: no response is ever sent
            /\ sendResponse(r, NoResponse)
            /\ UNCHANGED <<variant, now, stores>>

handleApiRequest(r, random) ==
    LET auth == authenticate(r) IN
    IF r.path = P_register /\ r.method = "POST" THEN
        handleRegister(r)
    ELSE IF r.path = P_login /\ r.method = "POST" THEN
        handleLogin(r)
    ELSE IF IsTasksRoute(r) \/ IsTaskRoute(r) THEN
        IF ~auth.ok THEN
            /\ sendResponse(r, ErrorResponse(401, E_Unauthorized))
            /\ UNCHANGED <<variant, now, stores>>
        ELSE
            handleAuthenticated(r, auth.userId, random)
    ELSE
        /\ sendResponse(r, ErrorResponse(404, E_NotFound))
        /\ UNCHANGED <<variant, now, stores>>

-----------------------------------------------------------------------------
(* The requests the clients send *)

Request(method, path, authorization, body) ==
    [body |-> body, authorization |-> authorization, path |-> path,
     method |-> method]

S_a == <<"a">>
S_b == <<"b">>
S_x == <<"x">>
S_y == <<"y">>
S_p == <<"p">>
S_q == <<"q">>
S_date == <<"2", "0", "2", "5", "-", "0", "1", "-", "1", "5">>
S_notADate == <<"n", "o", "t", "-", "a", "-", "d", "a", "t", "e">>
S_urgent == <<"u", "r", "g", "e", "n", "t">>
S_misc == <<"m", "i", "s", "c">>
S_true == <<"t", "r", "u", "e">>
S_none == <<"n", "o", "n", "e">>

Credentials(username, email, password) ==
    [password |-> Str(password), username |-> Str(username), email |-> Str(email)]

RegisterBodies ==
    { Credentials(S_a, S_x, S_p), Credentials(S_b, S_y, S_p),
      Credentials(S_a, S_y, S_p), Credentials(S_b, S_x, S_q),
      Credentials(S_b, S_y, <<>>), [password |-> Str(S_p), email |-> Str(S_x)] }

LoginBodies ==
    { [password |-> Str(S_p), username |-> Str(S_a)],
      [password |-> Str(S_q), username |-> Str(S_a)],
      [password |-> Str(S_p), username |-> Str(S_b)],
      [username |-> Str(S_a)] }

BasicHeader(token) == Str(S_Basic \o token)

\* the headers of clients that logged in: the token of a stored user
IssuedHeaders ==
    { BasicHeader(Token(users[i].id, users[i].username)) : i \in 1..Len(users) }

\* the headers made by hand: none, another scheme, a token that is no
\* base64 text, and tokens for pairs of an id text and a username
CraftedHeaders ==
    { Null,
      Str(<<"B", "e", "a", "r", "e", "r", " ", "M", "T", "p", "h">>),
      BasicHeader(<<"!", "!">>),
      BasicHeader(Base64Encode(<<"1">>)),
      BasicHeader(Base64Encode(<<"1", ":", "b">>)),
      BasicHeader(Base64Encode(<<"9", ":", "a">>)),
      BasicHeader(Base64Encode(<<"1", "x", ":", "a">>)),
      BasicHeader(Base64Encode(<<"0", "1", ":", "a">>)) }

CreateBodies ==
    { [text |-> Str(<<" ", "a">>)],
      [text |-> Str(S_b), priority |-> Str(S_high), category |-> Str(S_work),
       deadline |-> Str(S_date)],
      [text |-> Str(S_a), priority |-> Str(S_urgent), category |-> Str(S_misc),
       deadline |-> Str(S_notADate)],
      [text |-> Str(<<" ">>)],
      EmptyObject }

UpdateBodies ==
    { [completed |-> Str(S_true)],
      [text |-> Str(S_b)] }

\* the ids of the tasks in the stores, and one that no task has
TaskIds ==
    UNION { { taskFiles[f][i].id.s : i \in 1..Len(taskFiles[f]) } :
            f \in DOMAIN taskFiles }
    \cup { taskRows[i].id.s : i \in 1..Len(taskRows) }
    \cup { S_none }

TaskPath(taskId) == P_tasksSlash \o taskId

P_users == <<"/", "a", "p", "i", "/", "u", "s", "e", "r", "s">>

\* A set of inputs: the register and login bodies, the headers made by
\* hand, the create bodies, the update bodies, whether updates address the
\* stored tasks (or only an id that no task has), whether a client also
\* sends an update whose body carries the id of a stored task, and whether
\* Math.random() gives every create an id that no stored task has.
Inputs(register, login, crafted, create, update, putStored, retarget, fresh) ==
    [register |-> register, login |-> login, crafted |-> crafted,
     create |-> create, update |-> update, putStored |-> putStored,
     retarget |-> retarget, fresh |-> fresh]

\* the headers of the requests to the task routes
Headers(in) == IssuedHeaders \cup in.crafted

UpdateBodiesOf(in) ==
    in.update \cup
    (IF in.retarget THEN { [id |-> Str(id)] : id \in TaskIds \ {S_none} } ELSE {})

UpdateTargets(in) == IF in.putStored THEN TaskIds ELSE {S_none}

\* what Math.random() gives the creates
Suffixes(in) ==
    IF in.fresh
    THEN { x \in RandomSuffixes : NewTaskId(now, x) \notin TaskIds }
    ELSE RandomSuffixes

-----------------------------------------------------------------------------
(* The server handling one request, by the route of the request *)

Register(in) ==
    /\ UNCHANGED aside
    /\ \E body \in in.register :
           handleApiRequest(Request("POST", P_register, Null, body), <<"r">>)

Login(in) ==
    /\ UNCHANGED aside
    /\ \E body \in in.login :
           handleApiRequest(Request("POST", P_login, Null, body), <<"r">>)

List(in) ==
    /\ UNCHANGED aside
    /\ \E h \in Headers(in) :
           handleApiRequest(Request("GET", P_tasks, h, EmptyObject), <<"r">>)

Create(in) ==
    /\ UNCHANGED aside
    /\ \E h \in Headers(in), body \in in.create, random \in Suffixes(in) :
           handleApiRequest(Request("POST", P_tasks, h, body), random)

Update(in) ==
    /\ UNCHANGED aside
    /\ \E h \in Headers(in), id \in UpdateTargets(in), body \in UpdateBodiesOf(in) :
           handleApiRequest(Request("PUT", TaskPath(id), h, body), <<"r">>)

Delete(in) ==
    /\ UNCHANGED aside
    /\ \E h \in Headers(in), id \in TaskIds :
           handleApiRequest(Request("DELETE", TaskPath(id), h, EmptyObject), <<"r">>)

\* a route or a method the router has no branch for
Other(in) ==
    /\ UNCHANGED aside
    /\ \/ handleApiRequest(Request("GET", P_users, Null, EmptyObject), <<"r">>)
       \/ \E h \in IssuedHeaders :
           handleApiRequest(Request("DELETE", P_tasks, h, EmptyObject), <<"r">>)

\* requests whose method and path are those of no entry of the routing
\* table: another method to /api/register, to /api/tasks and to
\* /api/tasks/{id}, and another path
UnroutedRequests ==
    { <<"GET", P_register>>, <<"PUT", P_tasks>>,
      <<"POST", TaskPath(S_none)>>, <<"POST", P_users>> }

Unrouted(in) ==
    /\ UNCHANGED aside
    /\ \E h \in Headers(in), mp \in UnroutedRequests :
           handleApiRequest(Request(mp[1], mp[2], h, EmptyObject), <<"r">>)

Serve(in) ==
    \/ Register(in)
    \/ Login(in)
    \/ List(in)
    \/ Create(in)
    \/ Update(in)
    \/ Delete(in)
    \/ Other(in)

\* the store operations start or stop failing: the disk fills up, a file is
\* damaged, the database is locked
StoreFault ==
    /\ \E f \in SUBSET {"read", "write"} :
        /\ f # fault
        /\ fault' = f
    /\ UNCHANGED <<variant, now, stores, req, resp, flight>>

\* time passes
Tick ==
    /\ now < MaxClock
    /\ now' = now + 1
    /\ UNCHANGED <<variant, stores, req, resp, aside>>

-----------------------------------------------------------------------------
(* Requests handled at the same time.  The server is one thread: a handler
   runs until it awaits, and the handlers of other connections run while it
   waits.  index.js awaits bcrypt.hash between loading users.json and saving
   it; part_000 and part_001 await the database in authenticate, and the
   hash before the INSERT.  In index.js authenticate and the task handlers
   read and write the files without waiting, so a task request of index.js
   is handled in one step.                                                 *)

\* the connections that are open at the same time
MaxConnections == 2
Connections == 1..MaxConnections

Flight(phase, r, loaded, userId, since) ==
    [r |-> r, userId |-> userId, loaded |-> loaded, since |-> since,
     phase |-> phase]

\* no request of the connection waits
Idle == Flight("idle", Request("", <<>>, Null, EmptyObject), <<>>, Null, 0)

\* handleRegister gets as far as await bcrypt.hash
ReachesHash(r) ==
    /\ RegisterFieldsPresent(r.body)
    /\ variant = "index" => ReadFails \/ ~UserExists(r.body)

\* handleRegister up to await bcrypt.hash
BeginRegister(c, in) ==
    /\ flight[c].phase = "idle"
    /\ Len(users) < MaxUsers
    /\ \E body \in in.register :
        /\ ReachesHash(Request("POST", P_register, Null, body))
        /\ flight' = [flight EXCEPT ![c] =
                Flight("hashing", Request("POST", P_register, Null, body),
                       IF variant = "index" THEN loadUsers ELSE <<>>, Null, now)]
    /\ UNCHANGED <<variant, now, stores, req, resp, fault>>

\* handleRegister from the hash on
EndRegister(c) ==
    /\ flight[c].phase = "hashing"
    /\ IF variant = "index"
       THEN handleRegister_afterHash(flight[c].r, flight[c].loaded, flight[c].since)
       ELSE handleRegister_sqlite(flight[c].r)
    /\ flight' = [flight EXCEPT ![c] = Idle]
    /\ UNCHANGED fault

\* the create, update and delete requests of the client whose header is h:
\* it updates and deletes the tasks that are stored, its own and the others'
WriteRequests(in, h) ==
    { Request("POST", P_tasks, h, body) : body \in in.create }
    \cup { Request("PUT", TaskPath(id), h, body) :
                id \in TaskIds \ {S_none}, body \in UpdateBodiesOf(in) }
    \cup { Request("DELETE", TaskPath(id), h, EmptyObject) :
                id \in TaskIds \ {S_none} }

\* part_000, part_001: handleApiRequest up to the answer of the database to
\* authenticate.  Connection c is the client that logged in as the c-th
\* stored user.
BeginTask(c, in) ==
    /\ variant # "index"
    /\ flight[c].phase = "idle"
    /\ c <= Len(users)
    /\ \E h \in {BasicHeader(Token(users[c].id, users[c].username))} :
       \* authenticate reads the header alone
       \E auth \in {authenticate(Request("GET", P_tasks, h, EmptyObject))} :
           /\ auth.ok
           /\ \E r \in WriteRequests(in, h) :
                flight' = [flight EXCEPT ![c] =
                    Flight("authenticated", r, <<>>, auth.userId, now)]
    /\ UNCHANGED <<variant, now, stores, req, resp, fault>>

\* part_000, part_001: the handler of the task route, with auth.userId
EndTask(c, in) ==
    /\ flight[c].phase = "authenticated"
    /\ \E random \in Suffixes(in) :
           handleAuthenticated(flight[c].r, flight[c].userId, random)
    /\ flight' = [flight EXCEPT ![c] = Idle]
    /\ UNCHANGED fault

-----------------------------------------------------------------------------
(* The sets of inputs of the specifications *)

OneAccount == {Credentials(S_a, S_x, S_p)}
OneLogin == {[password |-> Str(S_p), username |-> Str(S_a)]}

\* the accounts: every register and login body; no task is created
AccountInputs ==
    Inputs(RegisterBodies, LoginBodies, {Null},
           {[text |-> Str(<<" ">>)]}, {[completed |-> Bool(TRUE)]}, FALSE, FALSE, FALSE)

\* the headers: one account, every header made by hand
HeaderInputs ==
    Inputs(OneAccount, OneLogin, CraftedHeaders,
           {[text |-> Str(S_a)]}, {[text |-> Str(S_b)]}, TRUE, FALSE, FALSE)

\* creation from a text alone, and from a blank text
CreateInputs ==
    Inputs(OneAccount, OneLogin, {},
           {[text |-> Str(<<" ", "a">>)], [text |-> Str(<<" ">>)]},
           {[completed |-> Bool(TRUE)]}, FALSE, FALSE, FALSE)

\* creation from every create body
FieldInputs ==
    Inputs(OneAccount, OneLogin, {Null},
           CreateBodies, {[completed |-> Bool(TRUE)]}, FALSE, FALSE, FALSE)

\* updates of stored tasks, each created with an id of its own
UpdateInputs ==
    Inputs(OneAccount, OneLogin, {Null},
           {[text |-> Str(S_a), priority |-> Str(S_high)]}, UpdateBodies, TRUE, TRUE, TRUE)

\* two accounts, each with tasks of its own, each task created with an id
\* of its own
OwnerInputs ==
    Inputs({Credentials(S_a, S_x, S_p), Credentials(S_b, S_y, S_p)}, OneLogin,
           {}, {[text |-> Str(S_a)]}, {}, TRUE, TRUE, TRUE)

\* one account, with and without a header, on every route
RouteInputs ==
    Inputs(OneAccount, OneLogin, {Null},
           {[text |-> Str(S_a)]}, {[text |-> Str(S_b)]}, TRUE, FALSE, FALSE)

\* registers with a field missing or empty, creates with the text missing,
\* empty or blank, next to a register and a create that are accepted
ValidationInputs ==
    Inputs({ Credentials(S_a, S_x, S_p), Credentials(S_b, S_y, <<>>),
             Credentials(<<>>, S_y, S_p), Credentials(S_b, <<>>, S_p),
             [password |-> Str(S_p), email |-> Str(S_y)],
             [password |-> Str(S_p), username |-> Str(S_b)],
             [username |-> Str(S_b), email |-> Str(S_y)] },
           OneLogin, {},
           { [text |-> Str(S_a)], [text |-> Str(<<>>)], [text |-> Str(<<" ", " ">>)],
             EmptyObject, [priority |-> Str(S_high)] },
           {[text |-> Str(S_b)]}, TRUE, FALSE, FALSE)

\* one account and its tasks, for the store operations that fail
FaultInputs ==
    Inputs(OneAccount, OneLogin,
           {}, {[text |-> Str(S_a)]}, {[text |-> Str(S_b)]}, TRUE, FALSE, TRUE)

\* a username with a colon in it, next to one without
S_a_b == <<"a", ":", "b">>

\* two accounts, one of them with a colon in its username, that log in and
\* send the token back
TokenInputs ==
    Inputs({Credentials(S_a_b, S_x, S_p), Credentials(S_a, S_y, S_p)},
           {[password |-> Str(S_p), username |-> Str(S_a_b)],
            [password |-> Str(S_p), username |-> Str(S_a)]},
           {}, {[text |-> Str(S_a)]}, {[text |-> Str(S_b)]}, FALSE, FALSE, TRUE)

\* one account whose tasks are created, at one clock reading and at several,
\* updated, deleted and listed
OrderInputs ==
    Inputs(OneAccount, OneLogin,
           {}, {[text |-> Str(S_a)]}, {[text |-> Str(S_b)]}, TRUE, FALSE, TRUE)

\* registrations that ask for the same username, for the same email, and
\* for neither
RaceInputs ==
    Inputs({Credentials(S_a, S_x, S_p), Credentials(S_a, S_y, S_p),
            Credentials(S_b, S_x, S_p), Credentials(S_b, S_y, S_q)}, OneLogin,
           {}, {[text |-> Str(S_a)]}, {}, FALSE, FALSE, FALSE)

\* two accounts whose task requests are handled at the same time
SharedInputs ==
    Inputs({Credentials(S_a, S_x, S_p), Credentials(S_b, S_y, S_p)}, OneLogin,
           {}, {[text |-> Str(S_a)]}, {[text |-> Str(S_b)]}, TRUE, FALSE, FALSE)

-----------------------------------------------------------------------------

Init ==
    /\ variant \in {"index", "part_000", "part_001"}
    /\ now = 0
    /\ users = <<>>
    /\ taskFiles = EmptyObject
    /\ taskRows = <<>>
    /\ req = Request("", <<>>, Null, EmptyObject)
    /\ resp = NoResponse
    /\ fault = {}
    /\ flight = [c \in Connections |-> Idle]

\* the accounts, as time passes
Next == Tick \/ Serve(AccountInputs)
Spec == Init /\ [][Next]_vars

\* creation from a text alone, as time passes
NextCreate == Tick \/ Serve(CreateInputs)
SpecCreate == Init /\ [][NextCreate]_vars

\* the headers of the task routes
NextHeaders == Serve(HeaderInputs)
SpecHeaders == Init /\ [][NextHeaders]_vars

\* creation from every create body
NextFields == Serve(FieldInputs)
SpecFields == Init /\ [][NextFields]_vars

\* updates and deletions of stored tasks
NextUpdate == Serve(UpdateInputs)
SpecUpdate == Init /\ [][NextUpdate]_vars

\* two owners
NextOwners == Serve(OwnerInputs)
SpecOwners == Init /\ [][NextOwners]_vars

\* the store operations fail and work again
NextFaults == StoreFault \/ Serve(FaultInputs)
SpecFaults == Init /\ [][NextFaults]_vars

\* the requests that validation refuses
NextValidation == Serve(ValidationInputs)
SpecValidation == Init /\ [][NextValidation]_vars

\* every route, and the requests of no route
NextRoutes == Serve(RouteInputs) \/ Unrouted(RouteInputs)
SpecRoutes == Init /\ [][NextRoutes]_vars

\* logins, and the tokens sent back
NextTokens == Serve(TokenInputs)
SpecTokens == Init /\ [][NextTokens]_vars

\* the order of a list, as time passes
NextOrder == Tick \/ Serve(OrderInputs)
SpecOrder == Init /\ [][NextOrder]_vars

\* registrations handled at the same time
NextRace ==
    \/ Register(RaceInputs)
    \/ \E c \in Connections : BeginRegister(c, RaceInputs)
    \/ \E c \in Connections : EndRegister(c)
SpecRace == Init /\ [][NextRace]_vars

\* the task requests of two users handled at the same time; index.js
\* handles a task request in one step
NextShared ==
    \/ Register(SharedInputs)
    \/ variant = "index" /\ Create(SharedInputs)
    \/ variant = "index" /\ Update(SharedInputs)
    \/ variant = "index" /\ Delete(SharedInputs)
    \/ \E c \in Connections : BeginTask(c, SharedInputs)
    \/ \E c \in Connections : EndTask(c, SharedInputs)
SpecShared == Init /\ [][NextShared]_vars

-----------------------------------------------------------------------------
(* The properties.  A step is the handling of the request in req', answered
   by resp'; the caller is the user the server authenticates it as.        *)

\* the stored users' ids
UserIds == { users[i].id : i \in 1..Len(users) }

\* the task collection of a user in the given task files and task rows
TasksIn(files, rows, userId) ==
    IF variant = "part_001"
    THEN SelectSeq(rows, LAMBDA row : row.user_id = userId)
    ELSE IF getUserTasksFile(userId) \in DOMAIN files
         THEN files[getUserTasksFile(userId)]
         ELSE <<>>

\* the task collection of a user, as stored before and after the step
TasksOf(userId) == TasksIn(taskFiles, taskRows, userId)
TasksAfter(userId) == TasksIn(taskFiles', taskRows', userId)

HoldsId(userId, taskId) ==
    \E i \in 1..Len(TasksOf(userId)) : TasksOf(userId)[i].id = Str(taskId)

\* the step handles a request of this method to /api/tasks
TasksStep(method) ==
    /\ ~Tick
    /\ req'.method = method
    /\ IsTasksRoute(req')

\* the step handles a request of this method to /api/tasks/{id}
TaskStep(method) ==
    /\ ~Tick
    /\ req'.method = method
    /\ IsTaskRoute(req')

\* the fields of a task that a list returns as they are stored
SameTask(listed, stored) ==
    \A f \in {"id", "text", "priority", "category", "deadline", "created_at"} :
        listed[f] = stored[f]

\* C1, list: a list answers with the caller's own collection, task by task
C1_ListOwn ==
    LET caller == authenticate(req').userId IN
    (TasksStep("GET") /\ resp'.status = 200) =>
        /\ Len(resp'.tasks) = Len(TasksOf(caller))
        /\ \A t \in 1..Len(resp'.tasks) :
            \E i \in 1..Len(TasksOf(caller)) :
                SameTask(resp'.tasks[t], TasksOf(caller)[i])

\* C1, update and delete: with the id of a task of another user, the answer
\* is 404 and the other user's collection is as it was
C1_NotFoundForOthers ==
    LET caller == authenticate(req')
        taskId == PathTaskId(req'.path)
    IN
    \A other \in UserIds :
        ( /\ TaskStep("PUT") \/ TaskStep("DELETE")
          /\ caller.ok
          /\ other # caller.userId
          /\ HoldsId(other, taskId) )
        => /\ resp'.status = 404
           /\ TasksAfter(other) = TasksOf(other)

\* C1: in each server, a list for user A returns A's tasks and none of user
\* B's, and an update or a delete that A sends with the id of a task of B is
\* answered 404, as for an id no task has, and leaves B's task unchanged.
C1_Isolation == [][C1_ListOwn /\ C1_NotFoundForOthers]_vars

-----------------------------------------------------------------------------

\* the step handles a POST to this path
PostStep(path) ==
    /\ ~Tick
    /\ req'.method = "POST"
    /\ req'.path = path

\* a stored user has the username or the email of the body
Taken(body) ==
    \E i \in 1..Len(users) :
        \/ Has(body, "username") /\ users[i].username = body.username
        \/ Has(body, "email") /\ users[i].email = body.email

\* C2, conflict: a taken username or email is answered 400, users unchanged
C2_Conflict ==
    (PostStep(P_register) /\ Taken(req'.body)) =>
        /\ resp'.status = 400
        /\ users' = users

\* C2, success: unused username and email, all three fields non-empty: 201
\* and one more user record, which carries the username and the email
C2_Success ==
    (PostStep(P_register) /\ RegisterFieldsPresent(req'.body) /\ ~Taken(req'.body)) =>
        /\ resp'.status = 201
        /\ Len(users') = Len(users) + 1
        /\ SubSeq(users', 1, Len(users)) = users
        /\ users'[Len(users')].username = req'.body.username
        /\ users'[Len(users')].email = req'.body.email

\* C2: of registers handled one after another, one whose username or email
\* is that of a stored user is answered 400 and leaves the users unchanged,
\* and one with a non-empty username, email and password, both unused, is
\* answered 201 and adds exactly one user record.
C2_Register == [][C2_Conflict /\ C2_Success]_vars

\* two users are stored and a register with a taken email was refused
C2_Witness ==
    /\ Len(users) = 2
    /\ req.path = P_register
    /\ req.body = Credentials(S_b, S_x, S_q)
    /\ resp = ErrorResponse(400, E_UserExists)

-----------------------------------------------------------------------------

\* no stored user has the username with the password: the username is not
\* registered, or it is and the password is wrong
NoSuchCredentials(body) ==
    \A i \in 1..Len(users) :
        users[i].username = body.username
            => ~BcryptCompare(body.password, users[i].password)

Registered(username) ==
    \E i \in 1..Len(users) : users[i].username = username

\* C3: a login with a non-empty username and password gets one and the same
\* response, status 400 with one error body, when the username is not
\* registered and when it is registered and the password is wrong.
C3_LoginUniform ==
    ( /\ req.method = "POST" /\ req.path = P_login
      /\ TruthyProp(req.body, "username") /\ TruthyProp(req.body, "password")
      /\ NoSuchCredentials(req.body) )
    => resp = ErrorResponse(400, E_BadCredentials)

\* a login of a registered user with a wrong password was refused, while
\* another username is not registered
C3_Witness ==
    /\ req.method = "POST" /\ req.path = P_login
    /\ req.body = [password |-> Str(S_q), username |-> Str(S_a)]
    /\ Registered(Str(S_a))
    /\ ~Registered(Str(S_b))
    /\ resp.status = 400

-----------------------------------------------------------------------------

\* the header names a stored user: it is "Basic " and the base64 text of
\* id:username, the id and the username of one stored user
NamesStoredUser(h) ==
    /\ Truthy(h)
    /\ StartsWith(h.s, S_Basic)
    /\ LET pair == DecodedPair(h.s) IN
       /\ pair.hasName
       /\ \E i \in 1..Len(users) :
            /\ ToStr(users[i].id) = pair.userId
            /\ users[i].username = Str(pair.username)

\* C4: a request to a task route whose Authorization header is missing, is
\* not "Basic ...", does not decode, or decodes to an id and a username that
\* are those of no stored user, is answered 401 and leaves the users and
\* every task collection unchanged.
C4_Unauthorized ==
    [][ ( /\ IsTasksRoute(req') \/ IsTaskRoute(req')
          /\ ~NamesStoredUser(req'.authorization) )
        => /\ resp'.status = 401
           /\ UNCHANGED stores ]_vars

-----------------------------------------------------------------------------

\* the body has a text and nothing else, and the text is not blank
TextOnly(body) ==
    /\ DOMAIN body = {"text"}
    /\ body.text.t = "str"
    /\ Trim(body.text.s) # <<>>

\* the task has the text, trimmed, and the default of every other field
HasDefaults(task, text) ==
    /\ task.text = Str(Trim(text))
    /\ task.priority = Str(S_medium)
    /\ task.category = Str(S_personal)
    /\ task.deadline = Null

\* C5, create: a task created (201) from a text alone is added to the
\* caller's collection with the id of the answer, the trimmed text and the
\* defaults; completed is false (0 in the tasks table)
C5_CreateDefaults ==
    (TasksStep("POST") /\ TextOnly(req'.body) /\ resp'.status = 201) =>
        \A caller \in {authenticate(req')} :
            caller.ok =>
                \A before \in {TasksOf(caller.userId)},
                   after \in {TasksAfter(caller.userId)} :
                    /\ Len(after) = Len(before) + 1
                    /\ SubSeq(after, 1, Len(before)) = before
                    /\ \A created \in {after[Len(after)]} :
                        /\ created.id = resp'.id
                        /\ HasDefaults(created, req'.body.text.s)
                        /\ ~Truthy(created.completed)

\* C5, list: every task of the caller's collection is returned, with its id
\* and its fields, and completed as the boolean false
C5_ListRoundTrip ==
    TasksStep("GET") =>
        \A caller \in {authenticate(req')} :
            caller.ok =>
                \A stored \in {TasksOf(caller.userId)} :
                    /\ resp'.status = 200
                    /\ Len(resp'.tasks) = Len(stored)
                    /\ \A i \in 1..Len(stored) :
                        \E t \in 1..Len(resp'.tasks) :
                            /\ SameTask(resp'.tasks[t], stored[i])
                            /\ HasDefaults(resp'.tasks[t], <<" ", "a">>)
                            /\ resp'.tasks[t].completed = Bool(FALSE)

\* C5: a task created from a body with only a non-empty text is stored with
\* priority medium, category personal, deadline null and completed false, and
\* a list by the same user then returns it with the same id, the trimmed
\* text and these values.
C5_Defaults == [][C5_CreateDefaults /\ C5_ListRoundTrip]_vars

\* a list has returned a created task, with the trimmed text
C5_Witness ==
    /\ req.method = "GET" /\ req.path = P_tasks
    /\ resp.status = 200
    /\ Len(resp.tasks) >= 1
    /\ resp.tasks[1].text = Str(S_a)
    /\ \E stored \in {TasksOf(authenticate(req).userId)} :
        /\ Len(stored) >= 1
        /\ \E i \in 1..Len(stored) : stored[i].id = resp.tasks[1].id

-----------------------------------------------------------------------------

\* the body has a text that create accepts
Creatable(body) ==
    /\ TruthyProp(body, "text")
    /\ body.text.t = "str"
    /\ Trim(body.text.s) # <<>>

\* the step has added one task to the collection of the user
AddsOne(userId) ==
    /\ Len(TasksAfter(userId)) = Len(TasksOf(userId)) + 1
    /\ SubSeq(TasksAfter(userId), 1, Len(TasksOf(userId))) = TasksOf(userId)

NewestTask(userId) == TasksAfter(userId)[Len(TasksAfter(userId))]

C6_PriorityFallsBack ==
    LET caller == authenticate(req') IN
    ( /\ TasksStep("POST") /\ caller.ok /\ Creatable(req'.body)
      /\ Has(req'.body, "priority")
      /\ ToStr(req'.body.priority) \notin validPriorities )
    => /\ resp'.status = 201
       /\ AddsOne(caller.userId)
       /\ NewestTask(caller.userId).priority = Str(S_medium)

C6_CategoryFallsBack ==
    LET caller == authenticate(req') IN
    ( /\ TasksStep("POST") /\ caller.ok /\ Creatable(req'.body)
      /\ Has(req'.body, "category")
      /\ ToStr(req'.body.category) \notin validCategories )
    => /\ resp'.status = 201
       /\ AddsOne(caller.userId)
       /\ NewestTask(caller.userId).category = Str(S_personal)

\* C6: in each server, a create with a priority that is none of low, medium,
\* high stores the priority medium, and a create with a category that is
\* none of personal, work, shopping, health stores the category personal;
\* either request is answered 201.
C6_InvalidFallBack == [][C6_PriorityFallsBack /\ C6_CategoryFallsBack]_vars

\* C7: in each server, a create with a deadline that is not a text of the
\* form YYYY-MM-DD is answered 201 and the task is stored with the deadline
\* null.
C7_MalformedDeadlineNull ==
    [][ LET caller == authenticate(req') IN
        ( /\ TasksStep("POST") /\ caller.ok /\ Creatable(req'.body)
          /\ TruthyProp(req'.body, "deadline")
          /\ ~DateRegexTest(ToStr(req'.body.deadline)) )
        => /\ resp'.status = 201
           /\ AddsOne(caller.userId)
           /\ NewestTask(caller.userId).deadline = Null ]_vars

-----------------------------------------------------------------------------

\* the fields of a task other than its id and updated_at
TaskFields ==
    {"text", "priority", "category", "deadline", "completed", "created_at"}

\* C8: an update answered 200 changes, of the task it addresses, the fields
\* its body names and updated_at and no other field (text, priority,
\* category, deadline, completed, created_at keep their values unless
\* named), and changes no other task.
C8_UpdatePatches ==
    [][ LET caller == authenticate(req')
            taskId == PathTaskId(req'.path)
        IN
        (TaskStep("PUT") /\ caller.ok /\ resp'.status = 200) =>
            \A u \in UserIds :
                /\ Len(TasksAfter(u)) = Len(TasksOf(u))
                /\ \A i \in 1..Len(TasksOf(u)) :
                    IF u = caller.userId /\ TasksOf(u)[i].id = Str(taskId)
                    THEN \A f \in TaskFields \ DOMAIN req'.body :
                            TasksAfter(u)[i][f] = TasksOf(u)[i][f]
                    ELSE TasksAfter(u)[i] = TasksOf(u)[i] ]_vars

-----------------------------------------------------------------------------

\* the boolean true as the task store holds it: the tasks table has no
\* boolean and holds 1
StoredTrue == IF variant = "part_001" THEN Num(1) ELSE Bool(TRUE)

C9_StoresTrue ==
    LET caller == authenticate(req')
        taskId == PathTaskId(req'.path)
    IN
    ( /\ TaskStep("PUT") /\ caller.ok /\ resp'.status = 200
      /\ TruthyProp(req'.body, "completed")
      /\ req'.body.completed.t # "bool" )
    => \E i \in 1..Len(TasksOf(caller.userId)) :
        /\ TasksOf(caller.userId)[i].id = Str(taskId)
        /\ TasksAfter(caller.userId)[i].completed = StoredTrue

C9_ListsBoolean ==
    LET caller == authenticate(req') IN
    (TasksStep("GET") /\ caller.ok) =>
        \A t \in 1..Len(resp'.tasks) :
            \E i \in 1..Len(TasksOf(caller.userId)) :
                /\ TasksOf(caller.userId)[i].id = resp'.tasks[t].id
                /\ resp'.tasks[t].completed =
                       Bool(Truthy(TasksOf(caller.userId)[i].completed))

\* C9: in each server, an update whose body has a completed that is truthy
\* and not a boolean (the text "true") leaves the task stored with completed
\* the boolean true, and a list then returns completed as the boolean true.
C9_TruthyCompleted == [][C9_StoresTrue /\ C9_ListsBoolean]_vars

-----------------------------------------------------------------------------

C10_FirstDelete ==
    LET caller == authenticate(req')
        taskId == PathTaskId(req'.path)
        before == TasksOf(caller.userId)
    IN
    (TaskStep("DELETE") /\ caller.ok /\ HoldsId(caller.userId, taskId)) =>
        /\ resp'.status = 200
        /\ Len(TasksAfter(caller.userId)) = Len(before) - 1
        /\ TasksAfter(caller.userId) =
               SelectSeq(before, LAMBDA t : t.id # Str(taskId))

C10_LaterDelete ==
    LET caller == authenticate(req')
        taskId == PathTaskId(req'.path)
    IN
    (TaskStep("DELETE") /\ caller.ok /\ ~HoldsId(caller.userId, taskId)) =>
        /\ resp'.status = 404
        /\ UNCHANGED stores

\* C10: the first delete of the id of a task of the caller is answered 200
\* and removes that task and no other, after which the caller has no task
\* of that id; a delete of an id the caller has no task of, as every later
\* delete of the same id is, is answered 404 and changes nothing.
C10_DeleteTwice == [][C10_FirstDelete /\ C10_LaterDelete]_vars

-----------------------------------------------------------------------------

\* the method and the path of the request are those of an entry of the
\* routing table
Routed(r) ==
    \/ r.method = "POST" /\ r.path = P_register
    \/ r.method = "POST" /\ r.path = P_login
    \/ r.method \in {"GET", "POST"} /\ IsTasksRoute(r)
    \/ r.method \in {"PUT", "DELETE"} /\ IsTaskRoute(r)

\* C11: a request to a path under /api/ whose method and path are those of
\* no entry of the routing table (POST /api/register, POST /api/login, GET
\* or POST /api/tasks, PUT or DELETE /api/tasks/{id}) is answered 404 with an
\* error body.
C11_UnroutedNotFound ==
    [][ (~Tick /\ ~Routed(req'))
        => /\ resp'.status = 404
           /\ resp'.error # "" ]_vars

-----------------------------------------------------------------------------

\* the request is handled by an operation that uses a store, and a store
\* operation it uses fails: the read of a login; the write of a register
\* with three fields, a username and an email not stored; the write of a
\* create with a text, of an update and of a delete of a task of the caller
FailsDuring(r) ==
    \/ /\ r.method = "POST" /\ r.path = P_login
       /\ TruthyProp(r.body, "username") /\ TruthyProp(r.body, "password")
       /\ ReadFails
    \/ /\ r.method = "POST" /\ r.path = P_register
       /\ RegisterFieldsPresent(r.body) /\ ~UserExists(r.body)
       /\ WriteFails
    \/ /\ r.method = "POST" /\ IsTasksRoute(r)
       /\ authenticate(r).ok /\ Creatable(r.body)
       /\ WriteFails
    \/ /\ r.method \in {"PUT", "DELETE"} /\ IsTaskRoute(r)
       /\ authenticate(r).ok
       /\ HoldsId(authenticate(r).userId, PathTaskId(r.path))
       /\ WriteFails

\* C12: a register, login, create, update or delete during which a read or
\* a write of a store fails is answered 500 with an error body (so neither
\* 200 or 201 for a change that was not stored, nor 400).
C12_StoreFailure ==
    [][ (~Tick /\ ~StoreFault /\ FailsDuring(req'))
        => /\ resp'.status = 500
           /\ resp'.error \in {E_Server, E_Internal, E_Database, E_CreateFailed} ]_vars

-----------------------------------------------------------------------------

\* the body has no text, or a text that is empty or only white space
BlankText(body) ==
    \/ ~Has(body, "text")
    \/ body.text.t = "str" /\ Trim(body.text.s) = <<>>

\* the body lacks one of username, email, password, or has it empty
FieldMissing(body) ==
    \E k \in {"username", "email", "password"} :
        ~Has(body, k) \/ body[k] = Str(<<>>)

\* C13, create: blank text, authenticated: 400 and no store changes
C13_BlankTextRefused ==
    (TasksStep("POST") /\ BlankText(req'.body)) =>
        \A caller \in {authenticate(req')} :
            caller.ok =>
                /\ resp' = ErrorResponse(400, E_TextRequired)
                /\ TasksAfter(caller.userId) = TasksOf(caller.userId)
                /\ UNCHANGED stores

\* C13, register: a field missing or empty: 400 and the users unchanged
C13_FieldMissingRefused ==
    (PostStep(P_register) /\ FieldMissing(req'.body)) =>
        /\ resp' = ErrorResponse(400, E_AllRequired)
        /\ users' = users

\* C13: a create by an authenticated user whose text is missing, empty or
\* only white space is answered 400 and leaves the task collection of that
\* user unchanged; a register with one of username, email, password missing
\* or empty is answered 400 and leaves the users unchanged.
C13_Validation == [][C13_BlankTextRefused /\ C13_FieldMissingRefused]_vars

\* a create with a text of white space was refused while its sender holds a
\* task
C13_Witness ==
    /\ req.method = "POST" /\ req.path = P_tasks
    /\ req.body = [text |-> Str(<<" ", " ">>)]
    /\ resp = ErrorResponse(400, E_TextRequired)
    /\ \E caller \in {authenticate(req)} :
        /\ caller.ok
        /\ Len(TasksOf(caller.userId)) >= 1

-----------------------------------------------------------------------------

\* the step starts a request that waits: it gives no answer yet
Waits == \E c \in Connections : flight[c].phase = "idle" /\ flight'[c].phase # "idle"

\* the step answers a create, update or delete request
WriteStep ==
    /\ ~Waits
    /\ TasksStep("POST") \/ TaskStep("PUT") \/ TaskStep("DELETE")

\* no stored task of these users has an id that a create can draw now
NoIdOfNow(userIds) ==
    \A u \in userIds, x \in RandomSuffixes : ~HoldsId(u, NewTaskId(now, x))

-----------------------------------------------------------------------------

\* C15: a user that a registration answered 201 has stored stays stored, with
\* the same id, username, email and password hash, in every later state,
\* whatever registrations are handled at the same time.
C15_UsersKept ==
    [][ \A i \in 1..Len(users) : \E j \in 1..Len(users') :
            /\ users'[j].id = users[i].id
            /\ users'[j].username = users[i].username
            /\ users'[j].email = users[i].email
            /\ users'[j].password = users[i].password ]_vars

-----------------------------------------------------------------------------

\* C16: in every reachable state, registrations handled at the same time
\* included, no two stored users have the same username, and no two the
\* same email.
C16_UniqueUsers ==
    \A i, j \in 1..Len(users) :
        i # j => /\ users[i].username # users[j].username
                 /\ users[i].email # users[j].email

\* a registration waits for its hash while another registration, for the
\* same username or the same email, was answered 201 and is stored
C16_Witness ==
    \E c \in Connections :
        /\ flight[c].phase = "hashing"
        /\ UserExists(flight[c].r.body)
        /\ req.path = P_register
        /\ resp.status = 201

-----------------------------------------------------------------------------

\* C17: a request to a task route is authenticated (not answered 401) if
\* and only if its Authorization header is "Basic " and the base64 text of
\* a string whose id part and username part are the id and the username of
\* one stored user, whether or not that user logged in; the request is then
\* handled for exactly the id the header names.
C17_AuthenticatedIff ==
    [][ \A caller \in {authenticate(req')} :
          (IsTasksRoute(req') \/ IsTaskRoute(req'))
          => /\ caller.ok <=> NamesStoredUser(req'.authorization)
             /\ resp'.status = 401 <=> ~caller.ok
             /\ caller.ok =>
                    ToStr(caller.userId) = DecodedPair(req'.authorization.s).userId
        ]_vars

-----------------------------------------------------------------------------

\* C18: for every user that register accepted, the token of a login
\* answered 200, sent back as "Basic <token>", authenticates the request as
\* the user id that the login named, and decodes to that id and the
\* username.
C18_TokenRoundTrip ==
    [][ (PostStep(P_login) /\ resp'.status = 200)
        => /\ \A caller \in {authenticate(Request("GET", P_tasks,
                                    BasicHeader(resp'.token), EmptyObject))} :
                /\ caller.ok
                /\ caller.userId = resp'.user.id
           /\ \A pair \in {DecodedPair(BasicHeader(resp'.token).s)} :
                /\ pair.userId = ToStr(resp'.user.id)
                /\ Str(pair.username) = resp'.user.username ]_vars

-----------------------------------------------------------------------------

\* C19: every request to a path under /api/, of every method and with every
\* credential, is answered: when its handler has run to its end a response
\* has been sent, also for an authenticated request to /api/tasks or
\* /api/tasks/{id} with a method the route does not handle.
C19_Answered ==
    [][ (~Tick /\ ~StoreFault /\ ~Waits /\ StartsWith(req'.path, <<"/", "a", "p", "i", "/">>))
        => resp'.status # 0 ]_vars

-----------------------------------------------------------------------------

\* C20: after every create, update and delete of a user no two tasks of the
\* user's collection have the same id, and an update leaves every task the
\* id it had, whatever fields its body carries.
C20_IdsKept ==
    [][ \A u \in UserIds :
          /\ \A i, j \in 1..Len(TasksAfter(u)) :
                i # j => TasksAfter(u)[i].id # TasksAfter(u)[j].id
          /\ TaskStep("PUT") =>
                /\ Len(TasksAfter(u)) = Len(TasksOf(u))
                /\ \A i \in 1..Len(TasksOf(u)) :
                        TasksAfter(u)[i].id = TasksOf(u)[i].id ]_vars

-----------------------------------------------------------------------------

\* every task in the stores, of the task files and of the tasks table
StoredTasks ==
    UNION { { taskFiles[f][i] : i \in 1..Len(taskFiles[f]) } : f \in DOMAIN taskFiles }
    \cup { taskRows[i] : i \in 1..Len(taskRows) }

\* C21: in every reachable state, after any creates and updates, the text
\* of every stored task is a string that is not empty and has no white
\* space at its start or its end.
C21_TextTrimmed ==
    \A task \in StoredTasks :
        /\ task.text.t = "str"
        /\ task.text.s # <<>>
        /\ Trim(task.text.s) = task.text.s

-----------------------------------------------------------------------------

\* the tasks without those of the id, in the order they had
Without(tasks, taskId) == SelectSeq(tasks, LAMBDA t : t.id # Str(taskId))

\* C22: in the two servers that keep the tasks in files a list returns the
\* user's tasks in the order of their creation: a create appends the task,
\* an update leaves every task at its position and a delete leaves the other
\* tasks in their order; in the server that keeps them in the tasks table a
\* list returns the user's tasks from the one created last to the one
\* created first.
C22_ListOrder ==
    [][ \A caller \in {authenticate(req')} :
          \A before \in {TasksOf(caller.userId)}, after \in {TasksAfter(caller.userId)} :
            /\ (caller.ok /\ variant # "part_001") =>
                /\ (TasksStep("GET") /\ resp'.status = 200) => resp'.tasks = before
                /\ (TasksStep("POST") /\ resp'.status = 201) => AddsOne(caller.userId)
                /\ (TaskStep("PUT") /\ resp'.status = 200) =>
                        /\ Len(after) = Len(before)
                        /\ \A i \in 1..Len(before) :
                                before[i].id # Str(PathTaskId(req'.path))
                                => after[i] = before[i]
                /\ (TaskStep("DELETE") /\ resp'.status = 200) =>
                        after = Without(before, PathTaskId(req'.path))
            /\ (caller.ok /\ variant = "part_001" /\ TasksStep("GET")
                    /\ resp'.status = 200) =>
                    /\ Len(resp'.tasks) = Len(before)
                    /\ \A i \in 1..Len(before) :
                            resp'.tasks[i].id = before[Len(before) + 1 - i].id ]_vars

-----------------------------------------------------------------------------

====
